---------------------------- MODULE Spec2Model ----------------------------
(***************************************************************************)
(* Model of app.py of invoice-to-excel-web: the numeric normaliser, the    *)
(* table-row extractor, the per-document builders and the POST handler     *)
(* that merges every document's summary into its last line item.           *)
(*                                                                         *)
(* Python strings are sequences of one-character strings.  Every Python    *)
(* value held in a cell is a record with the same four fields, so that any *)
(* two values can be compared.                                             *)
(***************************************************************************)
EXTENDS Naturals, Sequences, FiniteSets, TLC

VARIABLES
    pc,               \* position of the running function / handler
    value,            \* clean_numeric_value: its argument
    result,           \* clean_numeric_value: what it returned or raised
    pdf,              \* extract_table_data: the opened document
    page_no,          \* extract_table_data: pages read so far
    rows,             \* extract_table_data: the rows list
    files,            \* index: request.files.getlist("pdf_files")
    idx,              \* index: position of the for loop over files
    line_items_list,  \* index: the list of line-item DataFrames
    summary_list,     \* index: the list of summary DataFrames
    df_merged,        \* index: the merged DataFrame
    names,            \* index: what is left of df_summaries["Source File"].unique()
    response,         \* index: what the handler returned
    converted         \* the file converted/invoices_merged.xlsx written by this request

vars == <<pc, value, result, pdf, page_no, rows, files, idx, line_items_list,
          summary_list, df_merged, names, response, converted>>

(***************************************************************************)
(* Bounds of the model.                                                    *)
(***************************************************************************)
MaxLen == 3
MaxPages == 2
MaxFiles == 3

(***************************************************************************)
(* Python values.                                                          *)
(***************************************************************************)
Str(s) == [kind |-> "str", s |-> s, m |-> 0, e |-> 0]
\* the float m / 10^e, e the number of decimals left after dropping trailing zeros
Num(m, e) == [kind |-> "float", s |-> <<>>, m |-> m, e |-> e]
None == [kind |-> "None", s |-> <<>>, m |-> 0, e |-> 0]
NaN == [kind |-> "nan", s |-> <<>>, m |-> 0, e |-> 0]
ValueError == [kind |-> "ValueError", s |-> <<>>, m |-> 0, e |-> 0]

isinstance_str(v) == v.kind = "str"
Truthy(v) == CASE v.kind = "str" -> v.s # <<>>
               [] v.kind = "float" -> v.m # 0
               [] OTHER -> FALSE

(***************************************************************************)
(* String helpers: str.lower, the in operator, str.strip, str.split,       *)
(* str.endswith, repr.                                                     *)
(***************************************************************************)
Digits == {"0", "1", "2", "3", "4", "5", "6", "7", "8", "9"}

DigitVal(c) ==
    CASE c = "0" -> 0 [] c = "1" -> 1 [] c = "2" -> 2 [] c = "3" -> 3
      [] c = "4" -> 4 [] c = "5" -> 5 [] c = "6" -> 6 [] c = "7" -> 7
      [] c = "8" -> 8 [] c = "9" -> 9

LowerChar(c) ==
    CASE c = "A" -> "a" [] c = "B" -> "b" [] c = "C" -> "c" [] c = "D" -> "d"
      [] c = "E" -> "e" [] c = "F" -> "f" [] c = "G" -> "g" [] c = "H" -> "h"
      [] c = "I" -> "i" [] c = "J" -> "j" [] c = "K" -> "k" [] c = "L" -> "l"
      [] c = "M" -> "m" [] c = "N" -> "n" [] c = "O" -> "o" [] c = "P" -> "p"
      [] c = "Q" -> "q" [] c = "R" -> "r" [] c = "S" -> "s" [] c = "T" -> "t"
      [] c = "U" -> "u" [] c = "V" -> "v" [] c = "W" -> "w" [] c = "X" -> "x"
      [] c = "Y" -> "y" [] c = "Z" -> "z" [] OTHER -> c

lower(s) == [k \in 1..Len(s) |-> LowerChar(s[k])]

\* sub in s
Contains(s, sub) ==
    \E k \in 0..Len(s) :
        /\ k + Len(sub) <= Len(s)
        /\ \A j \in 1..Len(sub) : s[k + j] = sub[j]

endswith(s, suffix) ==
    /\ Len(suffix) <= Len(s)
    /\ \A j \in 1..Len(suffix) : s[Len(s) - Len(suffix) + j] = suffix[j]

IsSpace(c) == c \in {" ", "\t", "\n", "\r", "\f"}

RECURSIVE lstrip(_)
lstrip(s) == IF s # <<>> /\ IsSpace(Head(s)) THEN lstrip(Tail(s)) ELSE s

RECURSIVE rstrip(_)
rstrip(s) ==
    IF s # <<>> /\ IsSpace(s[Len(s)]) THEN rstrip(SubSeq(s, 1, Len(s) - 1)) ELSE s

strip(s) == rstrip(lstrip(s))

\* s.split(sep)[0] for a one-character sep
RECURSIVE split_first(_, _)
split_first(s, sep) ==
    IF s = <<>> \/ Head(s) = sep THEN <<>>
    ELSE <<Head(s)>> \o split_first(Tail(s), sep)

\* s.replace(c, "") for a one-character c
remove_char(s, c) == SelectSeq(s, LAMBDA x : x # c)

RECURSIVE Flatten(_)
Flatten(ss) == IF ss = <<>> THEN <<>> ELSE Head(ss) \o Flatten(Tail(ss))

\* repr of one character inside a str
ReprChar(c) ==
    CASE c = "\f" -> <<"\\", "x", "0", "c">>
      [] c = "\n" -> <<"\\", "n">>
      [] c = "\t" -> <<"\\", "t">>
      [] c = "\r" -> <<"\\", "r">>
      [] c = "\\" -> <<"\\", "\\">>
      [] OTHER -> <<c>>

\* repr of a table cell: a quoted str, or None
repr(cell) ==
    IF isinstance_str(cell)
    THEN <<"'">> \o Flatten([k \in 1..Len(cell.s) |-> ReprChar(cell.s[k])]) \o <<"'">>
    ELSE <<"N", "o", "n", "e">>

\* str(row) of a list of cells
RECURSIVE join_reprs(_)
join_reprs(row) ==
    IF row = <<>> THEN <<>>
    ELSE IF Len(row) = 1 THEN repr(row[1])
    ELSE repr(row[1]) \o <<",", " ">> \o join_reprs(Tail(row))

str_list(row) == <<"[">> \o join_reprs(row) \o <<"]">>

(***************************************************************************)
(* clean_numeric_value.                                                    *)
(***************************************************************************)
\* re.sub(r"[^\d.]", "", s)
sub_non_numeric(s) == SelectSeq(s, LAMBDA c : c \in Digits \/ c = ".")

RECURSIVE DigitsToNat(_)
DigitsToNat(s) ==
    IF s = <<>> THEN 0 ELSE DigitsToNat(SubSeq(s, 1, Len(s) - 1)) * 10 + DigitVal(s[Len(s)])

RECURSIVE DropTrailingZeros(_)
DropTrailingZeros(s) ==
    IF s # <<>> /\ s[Len(s)] = "0" THEN DropTrailingZeros(SubSeq(s, 1, Len(s) - 1)) ELSE s

\* float(s) for s made of digits and dots: a number, or ValueError
float(s) ==
    LET dots == SelectSeq(s, LAMBDA c : c = ".")
        int_part == split_first(s, ".")
        frac == IF dots = <<>> THEN <<>>
                ELSE DropTrailingZeros(SubSeq(s, Len(int_part) + 2, Len(s)))
    IN  IF Len(dots) > 1 \/ Len(s) = Len(dots)
        THEN ValueError
        ELSE Num(DigitsToNat(int_part \o frac), Len(frac))

clean_numeric_value(v) ==
    IF isinstance_str(v)
    THEN float(sub_non_numeric(remove_char(v.s, ",")))
    ELSE v

(***************************************************************************)
(* extract_table_data.  A document is what pdfplumber gives for it:        *)
(* whether it opens, its text, and per page what page.extract_table()      *)
(* does: return a table (a list of rows of cells), return None, or raise.  *)
(***************************************************************************)
Table(t) == [kind |-> "table", table |-> t]
NoTable == [kind |-> "None", table |-> <<>>]
Raises == [kind |-> "raise", table |-> <<>>]

HeaderWords == {<<"c", "o", "d", "e">>, <<"i", "t", "e", "m">>,
                <<"d", "e", "s", "c", "r", "i", "p", "t", "i", "o", "n">>}

\* the header test without .lower()
is_header_row_as_written(row) == \E col \in HeaderWords : Contains(str_list(row), col)

\* any(col in str(row).lower() for col in ["code", "item", "description"])
is_header_row(row) == \E col \in HeaderWords : Contains(lower(str_list(row)), col)

\* row[k].strip() if row[k] else ""
strip_or_empty(cell) == IF Truthy(cell) THEN Str(strip(cell.s)) ELSE Str(<<>>)

\* row[3].split("/")[0].strip() if row[3] else ""
quantity_of(cell) ==
    IF Truthy(cell) THEN Str(strip(split_first(cell.s, "/"))) ELSE Str(<<>>)

ItemColumns == <<"Code Name", "Item Code", "Description", "Quantity / Unit Type",
                 "Unit Price (EGP)", "Total Sales Amount (EGP)">>

\* the dict built for a row of at least 6 cells
row_dict(row) ==
    [c \in {ItemColumns[k] : k \in 1..Len(ItemColumns)} |->
        CASE c = "Code Name" -> strip_or_empty(row[1])
          [] c = "Item Code" -> strip_or_empty(row[2])
          [] c = "Description" -> strip_or_empty(row[3])
          [] c = "Quantity / Unit Type" -> quantity_of(row[4])
          [] c = "Unit Price (EGP)" -> clean_numeric_value(row[5])
          [] c = "Total Sales Amount (EGP)" -> clean_numeric_value(row[6])]

\* whether building the dict raises
row_dict_raises(row) ==
    \/ clean_numeric_value(row[5]) = ValueError
    \/ clean_numeric_value(row[6]) = ValueError

MinCells == 6

\* the length test with > for >=
has_more_cells(row) == Len(row) > MinCells

\* len(row) >= 6
has_enough_cells(row) == Len(row) >= MinCells

\* the loop over the rows without the inner try: an error ends the table
RECURSIVE table_rows_abort(_, _, _)
table_rows_abort(rs, table, k) ==
    IF k > Len(table) THEN rs
    ELSE LET row == table[k]
         IN  IF is_header_row(row) THEN table_rows_abort(rs, table, k + 1)
             ELSE IF has_enough_cells(row)
                  THEN IF row_dict_raises(row)
                       THEN rs
                       ELSE table_rows_abort(Append(rs, row_dict(row)), table, k + 1)
                  ELSE table_rows_abort(rs, table, k + 1)

\* the body of the loop over the rows of one table, from row k on
RECURSIVE table_rows(_, _, _)
table_rows(rs, table, k) ==
    IF k > Len(table) THEN rs
    ELSE LET row == table[k]
         IN  IF is_header_row(row) THEN table_rows(rs, table, k + 1)
             ELSE IF has_enough_cells(row)
                  THEN IF row_dict_raises(row)
                       THEN table_rows(rs, table, k + 1)
                       ELSE table_rows(Append(rs, row_dict(row)), table, k + 1)
                  ELSE table_rows(rs, table, k + 1)

\* if table and len(table) > 1
table_is_read(page) == page.kind = "table" /\ page.table # <<>> /\ Len(page.table) > 1

\* the body of the loop over the pages, from page k on; a raise ends the loop
RECURSIVE pages_rows(_, _, _)
pages_rows(rs, pages, k) ==
    IF k > Len(pages) THEN rs
    ELSE IF pages[k].kind = "raise" THEN rs
    ELSE IF table_is_read(pages[k])
         THEN pages_rows(table_rows(rs, pages[k].table, 1), pages, k + 1)
         ELSE pages_rows(rs, pages, k + 1)

extract_table_data(doc) == IF doc.opens THEN pages_rows(<<>>, doc.pages, 1) ELSE <<>>

(***************************************************************************)
(* Specification of clean_numeric_value over every short string.           *)
(***************************************************************************)
NumAlphabet == {"1", "0", ".", ",", "a"}

RECURSIVE StringsUpTo(_, _)
StringsUpTo(alphabet, n) ==
    IF n = 0 THEN {<<>>}
    ELSE LET shorter == StringsUpTo(alphabet, n - 1)
         IN  shorter \cup {<<c>> \o s : c \in alphabet, s \in {t \in shorter : Len(t) = n - 1}}

NumInputs == {Str(s) : s \in StringsUpTo(NumAlphabet, MaxLen)} \cup {Num(42, 0), None}

Idle == [kind |-> "idle", s |-> <<>>, m |-> 0, e |-> 0]
NoPdf == [opens |-> FALSE, text |-> <<>>, pages |-> <<>>]
NoFrame == [columns |-> <<>>, rows |-> <<>>]
NoResponse == [kind |-> "none", error |-> ""]

InitNum ==
    /\ pc = "num_call"
    /\ value \in NumInputs
    /\ result = Idle
    /\ pdf = NoPdf /\ page_no = 0 /\ rows = <<>>
    /\ files = <<>> /\ idx = 0 /\ line_items_list = <<>> /\ summary_list = <<>>
    /\ df_merged = NoFrame /\ names = <<>> /\ response = NoResponse
    /\ converted = FALSE

CleanString ==
    /\ pc = "num_call"
    /\ isinstance_str(value)
    /\ result' = clean_numeric_value(value)
    /\ pc' = "num_done"
    /\ UNCHANGED <<value, pdf, page_no, rows, files, idx, line_items_list,
                   summary_list, df_merged, names, response, converted>>

PassThrough ==
    /\ pc = "num_call"
    /\ ~isinstance_str(value)
    /\ result' = clean_numeric_value(value)
    /\ pc' = "num_done"
    /\ UNCHANGED <<value, pdf, page_no, rows, files, idx, line_items_list,
                   summary_list, df_merged, names, response, converted>>

NextNum == CleanString \/ PassThrough

SpecNum == InitNum /\ [][NextNum]_vars

\* C6: clean_numeric_value never raises on a string: it returns a number, and 0.0
\* when nothing parseable is left of the string once commas and every character
\* that is neither a digit nor a dot are removed; a non-string is returned unchanged.
C6_TotalReturnsZero ==
    pc = "num_done" =>
        IF isinstance_str(value)
        THEN /\ result.kind = "float"
             /\ (\A k \in 1..Len(value.s) : value.s[k] \notin Digits) => result = Num(0, 0)
        ELSE result = value

(***************************************************************************)
(* Specification of extract_table_data: the rows and tables a page can     *)
(* hold, and the function run page by page on every document of at most    *)
(* MaxPages such pages.                                                    *)
(***************************************************************************)
RowHeader == <<Str(<<"C", "o", "d", "e", " ", "N", "a", "m", "e">>),
               Str(<<"I", "t", "e", "m", " ", "C", "o", "d", "e">>),
               Str(<<"D", "e", "s", "c", "r", "i", "p", "t", "i", "o", "n">>),
               Str(<<"Q", "t", "y">>), Str(<<"P", "r", "i", "c", "e">>),
               Str(<<"T", "o", "t", "a", "l">>)>>
RowValid1 == <<Str(<<" ", "A", " ">>), Str(<<"1", "0">>), Str(<<"P", "l", "a", "n">>),
               Str(<<"2", " ", "/", " ", "E", "A">>),
               Str(<<"1", ",", "2", "3", "4", ".", "5", "0">>), Str(<<"2", "4", "6", "9">>)>>
RowValid2 == <<Str(<<"B">>), Str(<<"2", "0">>), Str(<<"S", "i", "m">>), Str(<<"1", "/", "E", "A">>),
               Str(<<"5">>), Str(<<"5", ".", "0">>)>>
\* a marker in another letter case, in the fourth cell
RowLowerItem == <<Str(<<"C">>), Str(<<"3", "0">>), Str(<<"C", "a", "r", "d">>),
                  Str(<<"3", " ", "/", " ", "i", "t", "e", "m">>), Str(<<"7">>),
                  Str(<<"2", "1">>)>>
\* a marker in another letter case, in the third cell
RowBarcode == <<Str(<<"D">>), Str(<<"4", "0">>), Str(<<"B", "a", "r", "c", "o", "d", "e">>),
                Str(<<"1">>), Str(<<"9">>), Str(<<"9">>)>>
\* a marker in the sixth cell
RowSeeItem == <<Str(<<"G">>), Str(<<"6", "0">>), Str(<<"T", "a", "g">>), Str(<<"1">>), Str(<<"4">>),
                Str(<<"4", " ", "I", "t", "e", "m">>)>>
RowShort == <<Str(<<"E">>), Str(<<"5", "0">>), Str(<<"P", "e", "n">>), Str(<<"1">>), Str(<<"3">>)>>
RowBadPrice == <<Str(<<"F">>), Str(<<"7", "0">>), Str(<<"B", "a", "d">>), Str(<<"1">>),
                 Str(<<"a", "b", "c">>), Str(<<"3">>)>>
RowTwoDots == <<Str(<<"H">>), Str(<<"8", "0">>), Str(<<"D", "o", "t">>), Str(<<"1">>), Str(<<"2">>),
                Str(<<"1", ".", "2", ".", "3">>)>>
RowNulls == <<None, None, None, None, None, None>>
\* a form feed before "ode": repr prints it \x0code
RowFormFeed == <<Str(<<"J">>), Str(<<"\f", "o", "d", "e">>), Str(<<"X">>), Str(<<"1">>), Str(<<"1">>),
                 Str(<<"1">>)>>
RowSeven == <<Str(<<"K">>), Str(<<"9", "0">>), Str(<<"W", "i", "d", "e">>), Str(<<"2", "/", "K", "G">>),
              Str(<<"E", "G", "P", " ", "8">>), Str(<<"1", "6">>), Str(<<"x">>)>>

TablePool ==
    { <<RowHeader, RowValid1, RowValid2>>,
      <<RowValid1>>,
      <<RowValid1, RowBadPrice, RowValid2>>,
      <<RowShort, RowValid2>>,
      <<RowLowerItem, RowNulls, RowBarcode>>,
      <<RowSeeItem, RowSeven, RowTwoDots>>,
      <<RowFormFeed, RowValid2>>,
      <<>> }

PageOutcomes == {Table(t) : t \in TablePool} \cup {NoTable, Raises}

RECURSIVE SeqsUpTo(_, _)
SeqsUpTo(S0, n) ==
    IF n = 0 THEN {<<>>}
    ELSE LET shorter == SeqsUpTo(S0, n - 1)
         IN  shorter \cup {Append(q, x) : q \in {t \in shorter : Len(t) = n - 1}, x \in S0}

TablePdfs ==
    {[opens |-> TRUE, text |-> <<>>, pages |-> ps] : ps \in SeqsUpTo(PageOutcomes, MaxPages)}
    \cup {[opens |-> FALSE, text |-> <<>>, pages |-> <<Table(<<RowValid1, RowValid2>>)>>]}

InitTable ==
    /\ pc = "table_open"
    /\ pdf \in TablePdfs
    /\ page_no = 0
    /\ rows = <<>>
    /\ value = Idle /\ result = Idle
    /\ files = <<>> /\ idx = 0 /\ line_items_list = <<>> /\ summary_list = <<>>
    /\ df_merged = NoFrame /\ names = <<>> /\ response = NoResponse
    /\ converted = FALSE

\* pdfplumber.open raises: the outer except, then return rows
OpenRaises ==
    /\ pc = "table_open"
    /\ ~pdf.opens
    /\ pc' = "table_returned"
    /\ UNCHANGED <<value, result, pdf, page_no, rows, files, idx, line_items_list,
                   summary_list, df_merged, names, response, converted>>

OpenPdf ==
    /\ pc = "table_open"
    /\ pdf.opens
    /\ pc' = "table_pages"
    /\ UNCHANGED <<value, result, pdf, page_no, rows, files, idx, line_items_list,
                   summary_list, df_merged, names, response, converted>>

\* page.extract_table() raises: the outer except, then return rows
PageRaises ==
    /\ pc = "table_pages"
    /\ page_no < Len(pdf.pages)
    /\ pdf.pages[page_no + 1].kind = "raise"
    /\ pc' = "table_returned"
    /\ UNCHANGED <<value, result, pdf, page_no, rows, files, idx, line_items_list,
                   summary_list, df_merged, names, response, converted>>

\* no table on the page, or a table of at most one row
PageSkipped ==
    /\ pc = "table_pages"
    /\ page_no < Len(pdf.pages)
    /\ pdf.pages[page_no + 1].kind # "raise"
    /\ ~table_is_read(pdf.pages[page_no + 1])
    /\ page_no' = page_no + 1
    /\ UNCHANGED <<pc, value, result, pdf, rows, files, idx, line_items_list,
                   summary_list, df_merged, names, response, converted>>

PageRows ==
    /\ pc = "table_pages"
    /\ page_no < Len(pdf.pages)
    /\ table_is_read(pdf.pages[page_no + 1])
    /\ rows' = table_rows(rows, pdf.pages[page_no + 1].table, 1)
    /\ page_no' = page_no + 1
    /\ UNCHANGED <<pc, value, result, pdf, files, idx, line_items_list,
                   summary_list, df_merged, names, response, converted>>

ReturnRows ==
    /\ pc = "table_pages"
    /\ page_no = Len(pdf.pages)
    /\ pc' = "table_returned"
    /\ UNCHANGED <<value, result, pdf, page_no, rows, files, idx, line_items_list,
                   summary_list, df_merged, names, response, converted>>

NextTable == OpenRaises \/ OpenPdf \/ PageRaises \/ PageSkipped \/ PageRows \/ ReturnRows

SpecTable == InitTable /\ [][NextTable]_vars

\* the page-by-page run returns what the function computes in one go
TableRunIsFunction == pc = "table_returned" => rows = extract_table_data(pdf)

(***************************************************************************)
(* The statements about extract_table_data, in terms of the document's     *)
(* cells.                                                                  *)
(***************************************************************************)
\* the pages whose table was asked for and returned: those before the first raise
RECURSIVE PagesRead(_)
PagesRead(pages) ==
    IF pages = <<>> \/ Head(pages).kind = "raise" THEN <<>>
    ELSE <<Head(pages)>> \o PagesRead(Tail(pages))

\* every row of every table returned, in page-then-row order
RowsOfTables(doc) ==
    IF doc.opens
    THEN Flatten([k \in 1..Len(PagesRead(doc.pages)) |-> PagesRead(doc.pages)[k].table])
    ELSE <<>>

\* the same, of the tables of at least two rows only
RowsOfLongTables(doc) ==
    IF doc.opens
    THEN Flatten([k \in 1..Len(PagesRead(doc.pages)) |->
                    IF Len(PagesRead(doc.pages)[k].table) >= 2
                    THEN PagesRead(doc.pages)[k].table ELSE <<>>])
    ELSE <<>>

MarkerWords == {<<"C", "o", "d", "e">>, <<"I", "t", "e", "m">>,
                <<"D", "e", "s", "c", "r", "i", "p", "t", "i", "o", "n">>}

\* header as the specification words it: a marker, letter case as written, in one
\* of the first three cells
HeaderByFirstThree(row) ==
    \E k \in 1..3 : /\ k <= Len(row)
                    /\ isinstance_str(row[k])
                    /\ \E w \in MarkerWords : Contains(row[k].s, w)

\* header in any letter case and any cell, the cell taken as Python prints it
HeaderByAnyCell(row) ==
    \E k \in 1..Len(row) :
        /\ isinstance_str(row[k])
        /\ \E w \in MarkerWords : Contains(lower(repr(row[k])), lower(w))

\* a price cell that is null, or keeps at least one digit and at most one dot
PriceParses(cell) ==
    isinstance_str(cell) =>
        /\ \E k \in 1..Len(cell.s) : cell.s[k] \in Digits
        /\ Cardinality({k \in 1..Len(cell.s) : cell.s[k] = "."}) <= 1

WellFormed(row) == Len(row) >= 6 /\ PriceParses(row[5]) /\ PriceParses(row[6])

\* C7 as stated: among the rows of at least 6 well-formed cells, those dropped
\* are exactly the rows with "Code", "Item" or "Description" in one of their first
\* three cells, so the rows returned are as many as the others.
C7_HeaderByFirstThreeCells ==
    pc = "table_returned" =>
        Len(rows) = Len(SelectSeq(RowsOfLongTables(pdf),
                          LAMBDA r : WellFormed(r) /\ ~HeaderByFirstThree(r)))

\* C7 amended: among the rows of at least 6 well-formed cells, those dropped are
\* exactly the rows with code, item or description, in any letter case, in the
\* printed form of any of their cells.
C7_HeaderByAnyCellAnyCase ==
    pc = "table_returned" =>
        Len(rows) = Len(SelectSeq(RowsOfLongTables(pdf),
                          LAMBDA r : WellFormed(r) /\ ~HeaderByAnyCell(r)))

\* a row with a lower-case marker in its fourth cell was read and dropped
C7_Witness ==
    /\ pc = "table_returned"
    /\ pdf.opens
    /\ pdf.pages = <<Table(<<RowLowerItem, RowNulls, RowBarcode>>)>>
    /\ Len(rows) = 1

\* C8 as stated: no more rows are returned than the tables hold rows of at least
\* 6 cells, and every non-header row of exactly 6 well-formed cells of every
\* table, a table of a single row included, is returned.
C8_SixCellRowsOfEveryTable ==
    pc = "table_returned" =>
        /\ Len(rows) <= Len(SelectSeq(RowsOfTables(pdf), LAMBDA r : Len(r) >= 6))
        /\ Len(rows) >= Len(SelectSeq(RowsOfTables(pdf),
                              LAMBDA r : Len(r) = 6 /\ WellFormed(r) /\ ~HeaderByAnyCell(r)))

\* C8 amended: the same of the tables of at least two rows.
C8_SixCellRowsOfLongTables ==
    pc = "table_returned" =>
        /\ Len(rows) <= Len(SelectSeq(RowsOfTables(pdf), LAMBDA r : Len(r) >= 6))
        /\ Len(rows) >= Len(SelectSeq(RowsOfLongTables(pdf),
                              LAMBDA r : Len(r) = 6 /\ WellFormed(r) /\ ~HeaderByAnyCell(r)))

\* a table of a 5-cell row and a 6-cell row gave the 6-cell row alone
C8_Witness ==
    /\ pc = "table_returned"
    /\ pdf.opens
    /\ pdf.pages = <<Table(<<RowShort, RowValid2>>)>>
    /\ rows = <<row_dict(RowValid2)>>

\* C9: the rows returned are the dicts of the rows whose mapping does not raise
\* (not a header, at least 6 cells, both prices parse), in page-then-row order: a
\* row whose mapping raises is the only row its error drops.
C9_ErrorDropsOnlyItsRow ==
    pc = "table_returned" =>
        LET kept == SelectSeq(RowsOfLongTables(pdf),
                              LAMBDA r : WellFormed(r) /\ ~HeaderByAnyCell(r))
        IN  rows = [k \in 1..Len(kept) |-> row_dict(kept[k])]

\* a price that does not parse between two valid rows, and a later page: the valid
\* rows of both pages are returned in order
C9_Witness ==
    /\ pc = "table_returned"
    /\ pdf.opens
    /\ pdf.pages = <<Table(<<RowValid1, RowBadPrice, RowValid2>>),
                     Table(<<RowShort, RowValid2>>)>>
    /\ rows = <<row_dict(RowValid1), row_dict(RowValid2), row_dict(RowValid2)>>

(***************************************************************************)
(* The text of a document and the keyword extractors.  A text is the list  *)
(* of its lines "keyword: value" (egp tells "keyword (EGP): value"), the   *)
(* keyword spelled as the code searches for it; "" is the empty list.      *)
(***************************************************************************)
Line(label, chars) == [label |-> label, egp |-> FALSE, v |-> chars]
Amount(label, chars) == [label |-> label, egp |-> TRUE, v |-> chars]

NA == Str(<<"N", "/", "A">>)
Zero == Num(0, 0)

extract_text(doc) == IF doc.opens THEN doc.text ELSE <<>>

extract_value(text, keyword) ==
    LET hits == SelectSeq(text, LAMBDA l : l.label = keyword /\ ~l.egp /\ l.v # <<>>)
    IN  IF text = <<>> \/ hits = <<>> THEN NA ELSE Str(strip(hits[1].v))

extract_numeric_value(text, keyword) ==
    LET hits == SelectSeq(text, LAMBDA l : l.label = keyword /\ l.egp /\ l.v # <<>>)
        parsed == float(remove_char(hits[1].v, ","))
    IN  IF text = <<>> \/ hits = <<>> THEN Zero
        ELSE IF parsed = ValueError THEN Zero ELSE parsed

\* text.split("Recipients")[-1]
RECURSIVE after_last_recipients(_)
after_last_recipients(text) ==
    IF \E k \in 1..Len(text) : text[k].label = "Recipients"
    THEN after_last_recipients(Tail(text))
    ELSE text

MNOsServices == <<"M", "N", "O", "s", " ", "S", "e", "r", "v", "i", "c", "e", "s">>

HeaderColumns == <<"Status", "Submission Date", "Issuance Date", "Internal ID",
                   "Issuer", "Recipients">>

Range(seq) == {seq[k] : k \in 1..Len(seq)}

base_data(text) ==
    [c \in Range(HeaderColumns) |->
        CASE c = "Issuer" -> extract_value(text, "Taxpayer Name")
          [] c = "Recipients" -> extract_value(after_last_recipients(text), "Taxpayer Name")
          [] OTHER -> extract_value(text, c)]

(***************************************************************************)
(* DataFrames: the column names in order, and the rows, each a function    *)
(* from the column names to values.                                        *)
(***************************************************************************)
\* pd.DataFrame(records): no record gives the empty frame, without columns
DataFrame(records, cols) ==
    IF records = <<>> THEN [columns |-> <<>>, rows |-> <<>>]
    ELSE [columns |-> cols, rows |-> records]

\* df.empty
empty(df) == df.rows = <<>> \/ df.columns = <<>>

\* the columns of cols that are not in seen, in their order
new_columns(cols, seen) == SelectSeq(cols, LAMBDA c : c \notin Range(seen))

\* a row widened to more columns, NaN in the new ones
reindex(row, cols) ==
    [c \in Range(cols) |-> IF c \in DOMAIN row THEN row[c] ELSE NaN]

\* df[col] = v for a scalar v
set_column(df, col, v) ==
    LET cols == df.columns \o new_columns(<<col>>, df.columns)
    IN  [columns |-> cols,
         rows |-> [k \in 1..Len(df.rows) |-> [c \in Range(cols) |->
                        IF c = col THEN v ELSE df.rows[k][c]]]]

\* df.at[i, col] = v: a column the frame has not is added, NaN in the other rows
set_at(df, i, col, v) ==
    LET cols == df.columns \o new_columns(<<col>>, df.columns)
    IN  [columns |-> cols,
         rows |-> [k \in 1..Len(df.rows) |->
                     IF k = i THEN [reindex(df.rows[k], cols) EXCEPT ![col] = v]
                     ELSE reindex(df.rows[k], cols)]]

RECURSIVE all_columns(_)
all_columns(frames) ==
    IF frames = <<>> THEN <<>>
    ELSE LET rest == all_columns(SubSeq(frames, 1, Len(frames) - 1))
         IN  rest \o new_columns(frames[Len(frames)].columns, rest)

\* the frames concatenated last first
concat_reversed(frames) ==
    LET cols == all_columns(frames)
    IN  [columns |-> cols,
         rows |-> Flatten([f \in 1..Len(frames) |->
                     [k \in 1..Len(frames[Len(frames) + 1 - f].rows) |->
                        reindex(frames[Len(frames) + 1 - f].rows[k], cols)]])]

\* pd.concat(frames, ignore_index=True) of a list that is not empty
concat(frames) ==
    LET cols == all_columns(frames)
    IN  [columns |-> cols,
         rows |-> Flatten([f \in 1..Len(frames) |->
                     [k \in 1..Len(frames[f].rows) |-> reindex(frames[f].rows[k], cols)]])]

(***************************************************************************)
(* extract_invoice_line_items and extract_invoice_summary.                 *)
(***************************************************************************)
extract_invoice_line_items(doc) ==
    LET base == base_data(extract_text(doc))
        line_items == extract_table_data(doc)
    IN  DataFrame([k \in 1..Len(line_items) |-> line_items[k] @@ base],
                  HeaderColumns \o ItemColumns)

SummaryColumns ==
    HeaderColumns \o
    <<"Code Name", "Item Code", "Description", "Quantity / Unit type", "Unit price (EGP)",
      "Total Sale Amount (EGP)", "Total Sales", "Total Discount", "Total Item discount",
      "Value added tax", "Extra invoice discount", "Total amount">>

extract_invoice_summary(doc) ==
    LET text == extract_text(doc)
        summary ==
          [c \in Range(SummaryColumns) |->
            CASE c \in Range(HeaderColumns) -> base_data(text)[c]
              [] c = "Code Name" ->
                    IF \E k \in 1..Len(text) : Contains(text[k].v, MNOsServices)
                    THEN Str(MNOsServices) ELSE NA
              [] c = "Item Code" -> extract_value(text, "Item Code")
              [] c = "Description" -> extract_value(text, "Description")
              [] c = "Quantity / Unit type" -> extract_value(text, "Quantity/ Unit Type")
              [] c = "Unit price (EGP)" -> extract_numeric_value(text, "Unit Price")
              [] c = "Total Sale Amount (EGP)" ->
                    extract_numeric_value(text, "Total Sales Amount")
              [] c = "Total Sales" -> extract_numeric_value(text, "Total Sales")
              [] c = "Total Discount" -> extract_numeric_value(text, "Total discount")
              [] c = "Total Item discount" ->
                    extract_numeric_value(text, "Total Items Discount")
              [] c = "Value added tax" -> extract_numeric_value(text, "Value added tax")
              [] c = "Extra invoice discount" ->
                    extract_numeric_value(text, "Extra Invoice Discounts")
              [] c = "Total amount" -> extract_numeric_value(text, "Total Amount")]
    IN  DataFrame(<<summary>>, SummaryColumns)

(***************************************************************************)
(* index, the POST handler: the documents and uploads it is run on.        *)
(***************************************************************************)
Text1 == <<Line("Status", <<"V", "a", "l", "i", "d">>),
           Line("Internal ID", <<"1">>),
           Line("Taxpayer Name", <<"A", "c", "m", "e">>),
           Line("Recipients", <<>>),
           Line("Taxpayer Name", <<"B", "o", "b">>),
           Line("Quantity/ Unit Type", <<" ", "2", " ">>),
           Amount("Total Amount", <<"1", ",", "1", "0", "0", ".", "5", "0">>)>>
Text2 == <<Line("Status", <<"V", "a", "l", "i", "d">>),
           Line("Type", MNOsServices),
           Amount("Total Sales", <<"2", "0", "0">>),
           Amount("Total Amount", <<"2", "5", "0">>)>>
Text3 == <<Line("Internal ID", <<"3">>),
           Amount("Total Amount", <<"7", "5">>)>>

\* three line items over two pages
PdfThree == [opens |-> TRUE, text |-> Text1,
             pages |-> <<Table(<<RowHeader, RowValid1, RowBadPrice, RowValid2>>),
                         Table(<<RowShort, RowValid2>>)>>]
\* no table: a summary and no line item
PdfNoRows == [opens |-> TRUE, text |-> Text3, pages |-> <<NoTable>>]
\* pdfplumber.open raises
PdfBroken == [opens |-> FALSE, text |-> Text1,
              pages |-> <<Table(<<RowValid1, RowValid2>>)>>]
\* the second page's extract_table raises
PdfPartial == [opens |-> TRUE, text |-> Text2,
               pages |-> <<Table(<<RowValid2, RowValid1>>), Raises>>]

NameA == <<"a", ".", "p", "d", "f">>
NameB == <<"b", ".", "P", "D", "F">>
NameTxt == <<"n", ".", "t", "x", "t">>

Upload(name, doc, ok) == [filename |-> name, pdf |-> doc, save_ok |-> ok]

PdfPool == {PdfThree, PdfNoRows, PdfBroken, PdfPartial}

UploadPool ==
    {Upload(NameA, d, TRUE) : d \in PdfPool}
    \cup {Upload(NameB, d, TRUE) : d \in {PdfThree, PdfNoRows}}
    \cup {Upload(NameA, PdfThree, FALSE), Upload(NameTxt, PdfThree, TRUE),
          Upload(<<>>, PdfThree, TRUE)}

\* not files or all(file.filename == '' for file in files)
no_files_selected(fs) == fs = <<>> \/ \A k \in 1..Len(fs) : fs[k].filename = <<>>

\* file and file.filename.lower().endswith(".pdf")
is_pdf_upload(file) ==
    file.filename # <<>> /\ endswith(lower(file.filename), <<".", "p", "d", "f">>)

\* the test with and for or
no_usable_data_at_all(lines, summaries) == lines = <<>> /\ summaries = <<>>

\* not line_items_list or not summary_list
no_usable_data(lines, summaries) == lines = <<>> \/ summaries = <<>>

Error(text) == [kind |-> "template", error |-> text]
SendFile == [kind |-> "file", error |-> ""]

\* Series.unique(): the values in order of first appearance
RECURSIVE unique(_)
unique(seq) ==
    IF seq = <<>> THEN <<>>
    ELSE LET rest == unique(SubSeq(seq, 1, Len(seq) - 1))
         IN  IF seq[Len(seq)] \in Range(rest) THEN rest ELSE Append(rest, seq[Len(seq)])

source_files(df) == [k \in 1..Len(df.rows) |-> df.rows[k]["Source File"]]

\* the index of the whole frame, the name not looked at
whole_index(df, file_name) == [k \in 1..Len(df.rows) |-> k]

\* the index of df[df["Source File"] == file_name]
group_index(df, file_name) ==
    SelectSeq([k \in 1..Len(df.rows) |-> k],
              LAMBDA k : df.rows[k]["Source File"] = file_name)

\* index[0]
first_index(index) == index[1]

\* df_lines_group.index[-1]
last_index(index) == index[Len(index)]

\* iloc[0]
first_summary_row(df_summaries, index) == df_summaries.rows[index[1]]

\* df_summary_group.iloc[-1]
last_summary_row(df_summaries, index) == df_summaries.rows[index[Len(index)]]

\* [col for col in df_summaries.columns if col not in df_lines.columns]
extra_columns(df_summaries, df_lines) == new_columns(df_summaries.columns, df_lines.columns)

RECURSIVE set_columns_at(_, _, _, _)
set_columns_at(df, i, cols, row) ==
    IF cols = <<>> THEN df
    ELSE set_columns_at(set_at(df, i, Head(cols), row[Head(cols)]), i, Tail(cols), row)

\* one turn of the loop over the source files of the summaries
attach_summary(df, df_summaries, extra, file_name) ==
    LET lines_index == group_index(df, file_name)
        summary_index == group_index(df_summaries, file_name)
    IN  IF lines_index = <<>> \/ summary_index = <<>> THEN df
        ELSE set_columns_at(df, last_index(lines_index), extra,
                            last_summary_row(df_summaries, summary_index))

InitIndex ==
    /\ pc = "index"
    /\ files \in SeqsUpTo(UploadPool, MaxFiles)
    /\ idx = 0
    /\ line_items_list = <<>>
    /\ summary_list = <<>>
    /\ df_merged = NoFrame
    /\ names = <<>>
    /\ response = NoResponse
    /\ converted = FALSE
    /\ value = Idle /\ result = Idle
    /\ pdf = NoPdf /\ page_no = 0 /\ rows = <<>>

NoFilesSelected ==
    /\ pc = "index"
    /\ no_files_selected(files)
    /\ response' = Error("No files selected")
    /\ pc' = "done"
    /\ UNCHANGED <<value, result, pdf, page_no, rows, files, idx, line_items_list,
                   summary_list, df_merged, names, converted>>

BeginBatch ==
    /\ pc = "index"
    /\ ~no_files_selected(files)
    /\ idx' = 1
    /\ pc' = "loop"
    /\ UNCHANGED <<value, result, pdf, page_no, rows, files, line_items_list,
                   summary_list, df_merged, names, response, converted>>

\* an upload whose name does not end in .pdf is passed over
SkipFile ==
    /\ pc = "loop"
    /\ idx <= Len(files)
    /\ ~is_pdf_upload(files[idx])
    /\ idx' = idx + 1
    /\ UNCHANGED <<pc, value, result, pdf, page_no, rows, files, line_items_list,
                   summary_list, df_merged, names, response, converted>>

\* file.save raises: the except logs and continues
SaveRaises ==
    /\ pc = "loop"
    /\ idx <= Len(files)
    /\ is_pdf_upload(files[idx])
    /\ ~files[idx].save_ok
    /\ idx' = idx + 1
    /\ UNCHANGED <<pc, value, result, pdf, page_no, rows, files, line_items_list,
                   summary_list, df_merged, names, response, converted>>

ProcessFile ==
    /\ pc = "loop"
    /\ idx <= Len(files)
    /\ is_pdf_upload(files[idx])
    /\ files[idx].save_ok
    /\ LET name == Str(files[idx].filename)
           df_line == extract_invoice_line_items(files[idx].pdf)
           df_summary == extract_invoice_summary(files[idx].pdf)
       IN  /\ line_items_list' =
                 IF ~empty(df_line)
                 THEN Append(line_items_list, set_column(df_line, "Source File", name))
                 ELSE line_items_list
           /\ summary_list' =
                 IF ~empty(df_summary)
                 THEN Append(summary_list, set_column(df_summary, "Source File", name))
                 ELSE summary_list
    /\ idx' = idx + 1
    /\ UNCHANGED <<pc, value, result, pdf, page_no, rows, files, df_merged, names,
                   response, converted>>

BatchFailed ==
    /\ pc = "loop"
    /\ idx > Len(files)
    /\ no_usable_data(line_items_list, summary_list)
    /\ response' = Error("Failed to extract data from PDF files")
    /\ pc' = "done"
    /\ UNCHANGED <<value, result, pdf, page_no, rows, files, idx, line_items_list,
                   summary_list, df_merged, names, converted>>

\* pd.concat of both lists, df_merged = df_lines.copy(), and the source files to
\* go through; pd.concat raises on an empty list
Concat ==
    /\ pc = "loop"
    /\ idx > Len(files)
    /\ ~no_usable_data(line_items_list, summary_list)
    /\ IF line_items_list = <<>> \/ summary_list = <<>>
       THEN /\ response' = Error("Error generating Excel")
            /\ pc' = "done"
            /\ UNCHANGED <<df_merged, names>>
       ELSE /\ df_merged' = concat(line_items_list)
            /\ names' = unique(source_files(concat(summary_list)))
            /\ pc' = "merge"
            /\ UNCHANGED response
    /\ UNCHANGED <<value, result, pdf, page_no, rows, files, idx, line_items_list,
                   summary_list, converted>>

AttachGroup ==
    /\ pc = "merge"
    /\ names # <<>>
    /\ df_merged' = attach_summary(df_merged, concat(summary_list),
                                   extra_columns(concat(summary_list),
                                                 concat(line_items_list)),
                                   Head(names))
    /\ names' = Tail(names)
    /\ UNCHANGED <<pc, value, result, pdf, page_no, rows, files, idx, line_items_list,
                   summary_list, response, converted>>

WriteExcel ==
    /\ pc = "merge"
    /\ names = <<>>
    /\ converted' = TRUE
    /\ response' = SendFile
    /\ pc' = "done"
    /\ UNCHANGED <<value, result, pdf, page_no, rows, files, idx, line_items_list,
                   summary_list, df_merged, names>>

\* to_excel or send_file raises: the except renders the error
ExcelRaises ==
    /\ pc = "merge"
    /\ names = <<>>
    /\ converted' \in BOOLEAN
    /\ response' = Error("Error generating Excel")
    /\ pc' = "done"
    /\ UNCHANGED <<value, result, pdf, page_no, rows, files, idx, line_items_list,
                   summary_list, df_merged, names>>

Next ==
    \/ NoFilesSelected \/ BeginBatch \/ SkipFile \/ SaveRaises \/ ProcessFile
    \/ BatchFailed \/ Concat \/ AttachGroup \/ WriteExcel \/ ExcelRaises

Spec == InitIndex /\ [][Next]_vars

(***************************************************************************)
(* The statements about the handler, in terms of the uploads.  Document k  *)
(* is files[k].                                                            *)
(***************************************************************************)
\* the document reached the builders: a .pdf name, and saved
IsProcessed(k) == is_pdf_upload(files[k]) /\ files[k].save_ok

\* what the builders give for each document of the pool
LineItemsOfPdf == [d \in PdfPool |-> extract_invoice_line_items(d)]
SummaryOfPdf == [d \in PdfPool |-> extract_invoice_summary(d).rows[1]]

\* the line items document k gives, tagged with its name
LinesOf(k) ==
    IF IsProcessed(k)
    THEN set_column(LineItemsOfPdf[files[k].pdf], "Source File",
                    Str(files[k].filename)).rows
    ELSE <<>>

SummaryOf(k) == SummaryOfPdf[files[k].pdf]

\* the rows the documents before document k give
RECURSIVE Offset(_)
Offset(k) == IF k <= 1 THEN 0 ELSE Offset(k - 1) + Len(LinesOf(k - 1))

\* the summary fields that no line item has, by name
ExtraFields ==
    {"Quantity / Unit type", "Unit price (EGP)", "Total Sale Amount (EGP)", "Total Sales",
     "Total Discount", "Total Item discount", "Value added tax", "Extra invoice discount",
     "Total amount"}

LineFields ==
    {"Status", "Submission Date", "Issuance Date", "Internal ID", "Issuer", "Recipients",
     "Code Name", "Item Code", "Description", "Quantity / Unit Type", "Unit Price (EGP)",
     "Total Sales Amount (EGP)", "Source File"}

\* a cell of the merged table; a column the table has not is empty
Cell(i, c) == IF c \in Range(df_merged.columns) THEN df_merged.rows[i][c] ELSE NaN

\* output row i carries the extra-field values of document k's summary
Carries(i, k) == \A c \in ExtraFields : Cell(i, c) = SummaryOf(k)[c]

\* output row i has every extra field empty
Blank(i) == \A c \in ExtraFields : Cell(i, c) = NaN

\* the merge loop has ended
Merged == (pc = "merge" /\ names = <<>>) \/ (pc = "done" /\ df_merged # NoFrame)

SharesName(k) ==
    \E j \in 1..Len(files) : j # k /\ files[j].filename = files[k].filename

\* C1 as stated: of every document with a line item (and so a summary), the last
\* row carries the summary's extra fields and every other row has them empty.
C1_LastRowOfEveryDocument ==
    Merged =>
        \A k \in 1..Len(files) :
            Len(LinesOf(k)) >= 1 =>
                /\ Carries(Offset(k) + Len(LinesOf(k)), k)
                /\ \A i \in (Offset(k) + 1)..(Offset(k) + Len(LinesOf(k)) - 1) : Blank(i)

\* C1 amended: the same of every document whose file name no other upload of the
\* batch has.
C1_LastRowOfUniquelyNamedDocument ==
    Merged =>
        \A k \in 1..Len(files) :
            (Len(LinesOf(k)) >= 1 /\ ~SharesName(k)) =>
                /\ Carries(Offset(k) + Len(LinesOf(k)), k)
                /\ \A i \in (Offset(k) + 1)..(Offset(k) + Len(LinesOf(k)) - 1) : Blank(i)

\* two documents of three line items: rows 3 and 6 carry the summaries
C1_Witness ==
    /\ pc = "done"
    /\ response = SendFile
    /\ files = <<Upload(NameA, PdfThree, TRUE), Upload(NameB, PdfThree, TRUE)>>
    /\ Blank(1) /\ Blank(2) /\ Carries(3, 1)
    /\ Blank(4) /\ Blank(5) /\ Carries(6, 2)
    /\ Cell(3, "Total amount") = Num(11005, 1)

\* C2: the merged rows, less the extra fields, are the documents' line items one
\* document after the other in the order of the uploads, each document's in the
\* order they were extracted.
C2_RowsAreTheLineItemsInOrder ==
    Merged =>
        [i \in 1..Len(df_merged.rows) |-> [c \in LineFields |-> df_merged.rows[i][c]]]
            = Flatten([k \in 1..Len(files) |-> LinesOf(k)])

\* three documents, the second without line items: 3 + 0 + 2 rows
C2_Witness ==
    /\ pc = "done"
    /\ response = SendFile
    /\ files = <<Upload(NameA, PdfThree, TRUE), Upload(NameB, PdfNoRows, TRUE),
                 Upload(NameA, PdfPartial, TRUE)>>
    /\ Len(df_merged.rows) = 5
    /\ df_merged.rows[4]["Item Code"] = Str(<<"2", "0">>)

\* the extra-field values of document k's summary are those of no other document
OwnSummaryValues(k) ==
    \A j \in 1..Len(files) :
        (j # k /\ IsProcessed(j)) =>
            \E c \in ExtraFields : SummaryOf(j)[c] # SummaryOf(k)[c]

\* the parsing of document k raised nothing
Parses(k) ==
    /\ files[k].pdf.opens
    /\ \A p \in 1..Len(files[k].pdf.pages) : files[k].pdf.pages[p].kind # "raise"

\* C3 as stated: a document that parses to no table row gives the output no row,
\* and no output row carries its summary's values (stated of the documents whose
\* summary values are their own).
C3_NoRowsNoSummary ==
    Merged =>
        /\ Len(df_merged.rows) = Offset(Len(files) + 1)
        /\ \A k \in 1..Len(files) :
              (IsProcessed(k) /\ Parses(k) /\ Len(LinesOf(k)) = 0 /\ OwnSummaryValues(k)) =>
                  \A i \in 1..Len(df_merged.rows) : ~Carries(i, k)

\* C3 amended: the same of every document without line items whose file name no
\* other upload of the batch has.
C3_NoRowsNoSummaryUniquelyNamed ==
    Merged =>
        /\ Len(df_merged.rows) = Offset(Len(files) + 1)
        /\ \A k \in 1..Len(files) :
              (IsProcessed(k) /\ Len(LinesOf(k)) = 0 /\ OwnSummaryValues(k)
                 /\ ~SharesName(k)) =>
                  \A i \in 1..Len(df_merged.rows) : ~Carries(i, k)

\* a document without a table between two documents with line items
C3_Witness ==
    /\ pc = "done"
    /\ response = SendFile
    /\ files = <<Upload(NameA, PdfThree, TRUE), Upload(NameB, PdfNoRows, TRUE),
                 Upload(NameA, PdfPartial, TRUE)>>
    /\ Len(summary_list) = 3
    /\ Len(df_merged.rows) = 5
    /\ \A i \in 1..5 : ~Carries(i, 2)

\* the loop over the uploads has ended
LoopDone == idx > Len(files)

\* C4: once every upload was gone through, no line items or no summaries ends
\* the request with the error "Failed to extract data from PDF files" and no file
\* written; a file is written or sent only if both lists are not empty.
C4_NoDataIsAnError ==
    (pc = "done" /\ LoopDone) =>
        /\ (line_items_list = <<>> \/ summary_list = <<>>) =>
              /\ response = Error("Failed to extract data from PDF files")
              /\ ~converted
        /\ (response.kind = "file" \/ converted) =>
              (line_items_list # <<>> /\ summary_list # <<>>)

\* a batch with a summary and no line item ends in the error
C4_Witness ==
    /\ pc = "done"
    /\ files = <<Upload(NameA, PdfNoRows, TRUE), Upload(NameTxt, PdfThree, TRUE)>>
    /\ line_items_list = <<>>
    /\ Len(summary_list) = 1
    /\ response = Error("Failed to extract data from PDF files")
    /\ ~converted

\* the processing of document k fails: it cannot be saved, or opened, or the
\* table of one of its pages cannot be extracted
Fails(k) == ~files[k].save_ok \/ ~Parses(k)

\* C5: while the uploads are gone through, the summaries collected are one per
\* .pdf upload whose processing has not failed, and the line-item frames one per
\* such upload with a line item: a failed document gives neither, and the
\* documents after it are gone through.
C5_FailedDocumentGivesNothing ==
    pc = "loop" =>
        /\ Len(summary_list) =
              Cardinality({k \in 1..(idx - 1) : is_pdf_upload(files[k]) /\ ~Fails(k)})
        /\ Len(line_items_list) =
              Cardinality({k \in 1..(idx - 1) :
                              is_pdf_upload(files[k]) /\ ~Fails(k) /\ Len(LinesOf(k)) >= 1})

\* the uploads with file name f that reached the builders
WithName(f) == {k \in 1..Len(files) : IsProcessed(k) /\ files[k].filename = f}

\* the output rows tagged with file name f
RowsNamed(f) ==
    {i \in 1..Len(df_merged.rows) : df_merged.rows[i]["Source File"] = Str(f)}

Max(set) == CHOOSE x \in set : \A y \in set : y <= x

\* C10: of the output rows with one file name, the last by position carries the
\* extra fields of the last summary with that name, and every other one has the
\* extra fields empty, whether the rows are contiguous or not.
C10_SharedNameIsOneGroup ==
    Merged =>
        \A f \in {files[k].filename : k \in 1..Len(files)} :
            (RowsNamed(f) # {} /\ WithName(f) # {}) =>
                /\ Carries(Max(RowsNamed(f)), Max(WithName(f)))
                /\ \A i \in RowsNamed(f) \ {Max(RowsNamed(f))} : Blank(i)

\* a.pdf, b.PDF, a.pdf: the rows named a.pdf are 1-3 and 7-8; row 8 carries the
\* third upload's summary, which differs from the first's
C10_Witness ==
    /\ pc = "done"
    /\ response = SendFile
    /\ files = <<Upload(NameA, PdfThree, TRUE), Upload(NameB, PdfThree, TRUE),
                 Upload(NameA, PdfPartial, TRUE)>>
    /\ RowsNamed(NameA) = {1, 2, 3, 7, 8}
    /\ Carries(8, 3) /\ ~Carries(8, 1)
    /\ Blank(1) /\ Blank(2) /\ Blank(3) /\ Blank(7)
    /\ Carries(6, 2)

=============================================================================
